---- MODULE Spec2Model ----
(***************************************************************************)
(* A model of lib.ts: the decorators' metadata, createApp's provider       *)
(* resolution, controller instantiation and route registration, and the    *)
(* request handlers createApp registers on the express app.                *)
(*                                                                         *)
(* Strings that the code inspects or concatenates (controller prefixes and *)
(* paths) are sequences of tokens, so that startsWith and template         *)
(* literals are computed.  A value that may be undefined is a sequence of  *)
(* length 0 (undefined) or 1 (the value).                                  *)
(***************************************************************************)
EXTENDS Integers, Sequences, FiniteSets, TLC

VARIABLES
    meta,               \* the Reflect metadata the decorators attached
    pc,                 \* where createApp is: providers, controllers, routes, serving, failed
    providerInstances,  \* the provider cache (a Map from class to instance)
    stack,              \* the active calls of instantiateProvider, innermost last
    pi,                 \* position of the providers forEach
    ci,                 \* position of the controllers forEach
    mi,                 \* position of the route-handler forEach of the current controller
    constructed,        \* every provider constructor call so far, in order
    controllerObjs,     \* the controller instances created so far, in order
    app,                \* the express router: the registered layers, in order
    error,              \* the exception createApp threw, if any
    inflight,           \* the requests whose handler awaits its controller method
    event               \* what the last handler step did (invoke, send, reject)

vars == <<meta, pc, providerInstances, stack, pi, ci, mi, constructed,
          controllerObjs, app, error, inflight, event>>

(***************************************************************************)
(* Bounds of the model.                                                    *)
(***************************************************************************)
MaxDeps == 2        \* constructor parameters of a class
MaxParams == 2      \* declared parameters of a route method
MaxStack == 4       \* call frames the engine allows before stack exhaustion
MaxInFlight == 2    \* requests pending at the same time

(***************************************************************************)
(* Optional values.                                                        *)
(***************************************************************************)
Undefined == <<>>
Some(v) == <<v>>
IsDefined(o) == o # <<>>
Value(o) == o[1]

\* the sequences over S of length at most n
SeqsUpTo(S, n) == UNION {[1..k -> S] : k \in 0..n}

(***************************************************************************)
(* keys, constants, types (lib.ts 8-26)                                    *)
(***************************************************************************)
ROUTE_PARAM == "ROUTE_PARAM"
BODY == "BODY"
HandlerParamType == {ROUTE_PARAM, BODY}

GET == "get"
POST == "post"
HttpMethod == {GET, POST}

\* the classes of the program: providers and controllers (index.ts), and a
\* provider MailService that takes no constructor parameters
CoreClasses == {"UserRepository", "AuthService"}
ProviderClasses == CoreClasses \cup {"MailService"}
ControllerClasses == {"AuthController", "UserController"}

\* strings as token sequences
Slash == "/"
EmptyString == <<>>
StrAuth == <<"auth">>
StrSlashAuth == <<Slash, "auth">>
StrUndefined == <<"undefined">>
PathLogin == <<Slash, "login">>
PathProfile == <<Slash, "profile", Slash, ":id">>
Paths == {PathLogin, PathProfile}

(***************************************************************************)
(* The decorators (lib.ts 31-83): what each leaves in the metadata.        *)
(***************************************************************************)
\* @Controller(prefix?): CONTROLLER_PREFIX_KEY is prefix ?? ''
Controller(prefix) == IF IsDefined(prefix) THEN Some(Value(prefix)) ELSE Some(EmptyString)

\* @Param(key?) / @Body(key?): the descriptor stored at the parameter's index
getHandlerParamDecorator(type, key) == [key |-> key, type |-> type]
Param(key) == getHandlerParamDecorator(ROUTE_PARAM, key)
Body(key) == getHandlerParamDecorator(BODY, key)

\* @Get(path) / @Post(path) on a method with n declared parameters whose
\* decorated positions carry paramsMeta (a sequence: position i+1 is index i)
getRouteDecorator(name, httpMethod, path, paramsMeta) ==
    [name |-> name, httpMethod |-> Some(httpMethod), path |-> Some(path),
     paramsMeta |-> paramsMeta]

\* the own key "constructor" of every prototype: it carries no route metadata
ConstructorKey ==
    [name |-> "constructor", httpMethod |-> Undefined, path |-> Undefined,
     paramsMeta |-> <<>>]

\* @Module({providers, controllers})
Module(providers, controllers, paramTypes, prefix, keys) ==
    [providers |-> providers, controllers |-> controllers,
     paramTypes |-> paramTypes, prefix |-> prefix, keys |-> keys]

(***************************************************************************)
(* The modules createApp is given.  IndexModule is the program of          *)
(* index.ts; the other families vary one part of it each: the provider     *)
(* graph and lists, the controllers' prefixes and routes, and the          *)
(* decorated parameters of a route method.                                 *)
(***************************************************************************)
Classes == ProviderClasses \cup ControllerClasses

\* a list over S, as long as S has members at most (a class listed twice included)
ListsOver(S) == SeqsUpTo(S, Cardinality(S))

\* design:paramtypes of a class: unavailable, or the constructor's parameter
\* classes, taken from S
DepChoices(S) == {Undefined} \cup {Some(d) : d \in SeqsUpTo(S, MaxDeps)}

\* the parameter descriptors a decorator can store, and an undecorated position
DescriptorKeys == {Undefined, Some("id"), Some("username")}
Descriptors ==
    {Param(k) : k \in DescriptorKeys} \cup {Body(k) : k \in DescriptorKeys}
ParamsMetaChoices ==
    SeqsUpTo({Undefined} \cup {Some(d) : d \in Descriptors}, MaxParams)

\* index.ts 8-25: UserRepository has no constructor, AuthService takes the repository
IndexParamTypes ==
    [c \in Classes |->
        CASE c \in {"UserRepository", "MailService"} -> Undefined
          [] c = "AuthService" -> Some(<<"UserRepository">>)
          [] c = "AuthController" -> Some(<<"AuthService">>)
          [] c = "UserController" -> Some(<<"UserRepository">>)]

\* index.ts 27-42: AuthController and its two routes
LoginRoute == getRouteDecorator("login", POST, PathLogin, <<Some(Body(Undefined))>>)
ProfileRoute == getRouteDecorator("profile", GET, PathProfile, <<Some(Param(Some("id")))>>)
ListRoute == getRouteDecorator("list", GET, PathLogin, <<>>)

IndexPrefix ==
    [c \in ControllerClasses |-> Controller(Some(StrAuth))]
IndexKeys ==
    [c \in ControllerClasses |->
        IF c = "AuthController" THEN <<ConstructorKey, LoginRoute, ProfileRoute>>
        ELSE <<ConstructorKey, ListRoute>>]

\* index.ts 44-48
IndexModule ==
    Module(<<"AuthService">>, <<"AuthController">>, IndexParamTypes, IndexPrefix, IndexKeys)

\* the provider graph over the three provider classes varies; one provider
\* is listed and there is no controller
GraphModule(m) ==
    \E listed \in ProviderClasses,
       graph \in [CoreClasses -> DepChoices(ProviderClasses)],
       mail \in {Undefined, Some(<<>>)} :
        m = Module(<<listed>>, <<>>,
                   [c \in Classes |->
                       IF c \in CoreClasses THEN graph[c]
                       ELSE IF c = "MailService" THEN mail ELSE Some(<<>>)],
                   IndexPrefix, IndexKeys)

\* AuthController with the route login alone
LoginKeys ==
    [c \in ControllerClasses |->
        IF c = "AuthController" THEN <<ConstructorKey, LoginRoute>> ELSE IndexKeys[c]]

\* the provider list, the graph of the listed classes and the controller's
\* parameters vary
DIModule(m) ==
    \E providers \in ListsOver(CoreClasses),
       graph \in [CoreClasses -> DepChoices(CoreClasses)],
       ctl \in DepChoices(CoreClasses) :
        m = Module(providers, <<"AuthController">>,
                   [c \in Classes |->
                       IF c \in CoreClasses THEN graph[c]
                       ELSE IF c = "AuthController" THEN ctl
                       ELSE IF c = "MailService" THEN Undefined ELSE Some(<<>>)],
                   IndexPrefix, LoginKeys)

\* what a route decorator may put on the methods login and profile of
\* AuthController: nothing (the method is no route), or a verb and a path
RouteChoices(name) ==
    {<<>>} \cup {<<getRouteDecorator(name, v, p, <<>>)>> : v \in HttpMethod, p \in Paths}
PrefixChoices ==
    {Undefined, Controller(Undefined), Controller(Some(EmptyString)),
     Controller(Some(StrAuth)), Controller(Some(StrSlashAuth))}

\* the controller list, the prefix and the routes of AuthController vary
RouteModule(m) ==
    \E providers \in {<<"AuthService">>, <<"UserRepository">>,
                       <<"UserRepository", "AuthService">>},
       controllers \in ListsOver(ControllerClasses),
       prefix \in PrefixChoices,
       login \in RouteChoices("login"),
       profile \in RouteChoices("profile") :
        m = Module(providers, controllers, IndexParamTypes,
                   [c \in ControllerClasses |->
                       IF c = "AuthController" THEN prefix ELSE IndexPrefix[c]],
                   [c \in ControllerClasses |->
                       IF c = "AuthController"
                       THEN <<ConstructorKey>> \o login \o profile
                       ELSE IndexKeys[c]])

\* the declared and the decorated parameters of the route login vary
ParamModule(m) ==
    \E pm \in ParamsMetaChoices :
        m = Module(<<"AuthService">>, <<"AuthController">>, IndexParamTypes,
                   IndexPrefix,
                   [c \in ControllerClasses |->
                       IF c = "AuthController"
                       THEN <<ConstructorKey,
                              getRouteDecorator("login", POST, PathLogin, pm)>>
                       ELSE IndexKeys[c]])

IsModule(m) ==
    \/ m = IndexModule
    \/ GraphModule(m)
    \/ DIModule(m)
    \/ RouteModule(m)
    \/ ParamModule(m)

(***************************************************************************)
(* Reflect.getMetadata on the module's metadata.                           *)
(***************************************************************************)
\* Reflect.getMetadata(DESIGN_PARAM_TYPES, Cls)
DesignParamTypes(Cls) == meta.paramTypes[Cls]

\* value ?? fallback
OrElse(value, fallback) == IF IsDefined(value) THEN Value(value) ELSE fallback

NoEvent == [type |-> "none", sent |-> Undefined]

Init ==
    /\ IsModule(meta)
    /\ pc = "providers"
    /\ providerInstances = <<>>
    /\ stack = <<>>
    /\ pi = 1
    /\ ci = 1
    /\ mi = 1
    /\ constructed = <<>>
    /\ controllerObjs = <<>>
    /\ app = <<>>
    /\ error = Undefined
    /\ inflight = [s \in 1..MaxInFlight |-> Undefined]
    /\ event = NoEvent

(***************************************************************************)
(* createApp, provider resolution (lib.ts 94-114)                          *)
(***************************************************************************)
\* a lookup that never finds the class (the cache is not consulted)
CacheNeverHas(Cls) == FALSE

\* providerInstances.has(Cls)
CacheHas(Cls) == Cls \in DOMAIN providerInstances

\* providerInstances.set(Cls, instance)
CacheSet(Cls, instance) ==
    [k \in (DOMAIN providerInstances) \cup {Cls} |->
        IF k = Cls THEN instance ELSE providerInstances[k]]

\* new Cls(...params): a fresh object that keeps the arguments it was given
New(Cls, params, id) ==
    [cls |-> Cls, id |-> id, args |-> [i \in 1..Len(params) |-> params[i].id]]

\* the identity of the next object constructed
NextId == Len(constructed) + Len(controllerObjs) + 1

\* the parameter types are never found, so every class resolves as a leaf
ProviderDepsNone(Cls) == <<>>

\* the dependencies instantiateProvider resolves for Cls (lib.ts 101)
ProviderDeps(Cls) == OrElse(DesignParamTypes(Cls), <<>>)

\* the resolved dependencies spread in the reverse of the declared order
ConstructorArgsReversed(frame) ==
    [i \in 1..Len(frame.params) |-> frame.params[Len(frame.params) + 1 - i]]

\* the argument list the constructor of the top frame is called with (lib.ts 102-104)
ConstructorArgs(frame) == frame.params

Top == stack[Len(stack)]

\* a call of instantiateProvider is about to be made: by the providers
\* forEach (lib.ts 114) or by deps.map of the innermost call (lib.ts 102)
HasPendingCall ==
    IF stack = <<>> THEN pi <= Len(meta.providers)
    ELSE Len(Top.params) < Len(Top.deps)
Callee ==
    IF stack = <<>> THEN meta.providers[pi] ELSE Top.deps[Len(Top.params) + 1]

\* instantiateProvider returns instance to its caller, whose frames are stk
Return(instance, stk) ==
    IF stk = <<>>
    THEN /\ stack' = <<>>
         /\ pi' = pi + 1
    ELSE /\ stack' = [stk EXCEPT ![Len(stk)].params = Append(@, instance)]
         /\ pi' = pi

\* lib.ts 96-101: the call, its cache lookup, and the frame of a miss; a call
\* deeper than the engine's stack throws RangeError out of createApp
InstantiateProvider ==
    /\ pc = "providers"
    /\ HasPendingCall
    /\ IF CacheHas(Callee)
       THEN /\ Return(providerInstances[Callee], stack)
            /\ UNCHANGED <<pc, error>>
       ELSE IF Len(stack) >= MaxStack
       THEN /\ pc' = "failed"
            /\ error' = Some([kind |-> "RangeError", cls |-> ""])
            /\ stack' = <<>>
            /\ pi' = pi
       ELSE /\ stack' = Append(stack, [Cls |-> Callee, deps |-> ProviderDeps(Callee),
                                       params |-> <<>>])
            /\ UNCHANGED <<pc, error, pi>>
    /\ UNCHANGED <<meta, providerInstances, ci, mi, constructed, controllerObjs,
                   app, inflight, event>>

\* lib.ts 104-109: every dependency is resolved; construct, cache, return
ConstructProvider ==
    /\ pc = "providers"
    /\ stack # <<>>
    /\ Len(Top.params) = Len(Top.deps)
    /\ LET instance == New(Top.Cls, ConstructorArgs(Top), NextId) IN
        /\ constructed' = Append(constructed, instance)
        /\ providerInstances' = CacheSet(Top.Cls, instance)
        /\ Return(instance, SubSeq(stack, 1, Len(stack) - 1))
    /\ UNCHANGED <<meta, pc, ci, mi, controllerObjs, app, error, inflight, event>>

\* the controllers forEach begins between two top-level provider calls
ProvidersResolvedEarly == stack = <<>>

\* lib.ts 114-117: the providers forEach is over; the controllers forEach begins
ProvidersResolved ==
    stack = <<>> /\ pi > Len(meta.providers)

BeginControllers ==
    /\ pc = "providers"
    /\ ProvidersResolved
    /\ pc' = "controllers"
    /\ UNCHANGED <<meta, providerInstances, stack, pi, ci, mi, constructed,
                   controllerObjs, app, error, inflight, event>>

(***************************************************************************)
(* createApp, the controllers (lib.ts 117-175)                             *)
(***************************************************************************)
ControllerCls == meta.controllers[ci]

\* a parameter class counts as missing unless the providers list names it
MissingFromList(deps) ==
    {i \in 1..Len(deps) : \A j \in 1..Len(meta.providers) : meta.providers[j] # deps[i]}

\* lib.ts 119-127: the first parameter class of deps that the cache lacks
MissingProviders(deps) == {i \in 1..Len(deps) : ~CacheHas(deps[i])}
FirstMissing(deps) ==
    deps[CHOOSE i \in MissingProviders(deps) : \A j \in MissingProviders(deps) : i <= j]

\* lib.ts 117-128: read the controller's parameter classes (no fallback: map
\* of undefined throws TypeError), look each up in the cache (a miss throws
\* the named error), construct the controller
InstantiateController ==
    /\ pc = "controllers"
    /\ ci <= Len(meta.controllers)
    /\ LET paramTypes == DesignParamTypes(ControllerCls) IN
        IF ~IsDefined(paramTypes)
        THEN /\ pc' = "failed"
             /\ error' = Some([kind |-> "TypeError", cls |-> ""])
             /\ UNCHANGED <<controllerObjs, mi>>
        ELSE IF MissingProviders(Value(paramTypes)) # {}
        THEN /\ pc' = "failed"
             /\ error' = Some([kind |-> "Error", cls |-> FirstMissing(Value(paramTypes))])
             /\ UNCHANGED <<controllerObjs, mi>>
        ELSE LET deps == Value(paramTypes)
                 params == [i \in 1..Len(deps) |-> providerInstances[deps[i]]]
             IN /\ controllerObjs' = Append(controllerObjs,
                                            New(ControllerCls, params, NextId))
                /\ pc' = "routes"
                /\ mi' = 1
                /\ UNCHANGED error
    /\ UNCHANGED <<meta, providerInstances, stack, pi, ci, constructed, app,
                   inflight, event>>

\* a JavaScript truthiness test of an optional string
Truthy(s) == IsDefined(s) /\ Value(s) # EmptyString

\* prefix.startsWith('/')
StartsWith(s, token) == Len(s) > 0 /\ s[1] = token

\* `${value}`: undefined prints as "undefined"
TemplateString(value) == IF IsDefined(value) THEN Value(value) ELSE StrUndefined

\* lib.ts 130-131: the controller's prefix, a leading slash added
Prefix(Cls) ==
    LET prefix == meta.prefix[Cls] IN
    IF Truthy(prefix) /\ ~StartsWith(Value(prefix), Slash)
    THEN Some(<<Slash>> \o Value(prefix))
    ELSE prefix

\* lib.ts 148
FullPath(prefix, path) == TemplateString(prefix) \o TemplateString(path)

\* lib.ts 134-137: the own keys of the prototype that carry HTTP_METHOD_KEY
HasRouteMetadata(key) == IsDefined(key.httpMethod)
RouteKeys(Cls) == SelectSeq(meta.keys[Cls], HasRouteMetadata)

\* every handler closes over the first controller created
LayerOfFirstController(Cls, controller, method) ==
    [httpMethod |-> Value(method.httpMethod),
     fullPath |-> FullPath(Prefix(Cls), method.path),
     controller |-> controllerObjs[1],
     method |-> method.name,
     paramsMeta |-> method.paramsMeta]

\* lib.ts 142-150: what app[httpMethod](fullPath, handler) adds to the router;
\* the handler closes over the controller, the method and its paramsMeta
Layer(Cls, controller, method) ==
    [httpMethod |-> Value(method.httpMethod),
     fullPath |-> FullPath(Prefix(Cls), method.path),
     controller |-> controller,
     method |-> method.name,
     paramsMeta |-> method.paramsMeta]

\* lib.ts 138-174: one turn of the route-handler forEach
RegisterRoute ==
    /\ pc = "routes"
    /\ mi <= Len(RouteKeys(ControllerCls))
    /\ app' = Append(app, Layer(ControllerCls, controllerObjs[Len(controllerObjs)],
                                RouteKeys(ControllerCls)[mi]))
    /\ mi' = mi + 1
    /\ UNCHANGED <<meta, pc, providerInstances, stack, pi, ci, constructed,
                   controllerObjs, error, inflight, event>>

\* lib.ts 175: the controller's routes are registered; on to the next controller
NextController ==
    /\ pc = "routes"
    /\ mi > Len(RouteKeys(ControllerCls))
    /\ pc' = "controllers"
    /\ ci' = ci + 1
    /\ mi' = 1
    /\ UNCHANGED <<meta, providerInstances, stack, pi, constructed, controllerObjs,
                   app, error, inflight, event>>

\* lib.ts 176
ReturnApp ==
    /\ pc = "controllers"
    /\ ci > Len(meta.controllers)
    /\ pc' = "serving"
    /\ UNCHANGED <<meta, providerInstances, stack, pi, ci, mi, constructed,
                   controllerObjs, app, error, inflight, event>>

(***************************************************************************)
(* Serving: the handler of lib.ts 150-173 on the express router.           *)
(***************************************************************************)
\* JavaScript values passed to a controller method
JsUndefined == [type |-> "undefined", props |-> {}]
JsString(s) == [type |-> "string", props |-> {<<"value", s>>}]
JsObject(props) == [type |-> "object", props |-> props]

\* object[key]: undefined when the object has no such property
Property(object, key) ==
    IF \E p \in object.props : p[1] = key
    THEN JsString((CHOOSE p \in object.props : p[1] = key)[2])
    ELSE JsUndefined

\* what the router's parameter parsing and bodyParser.json() hand the handler:
\* req.params and req.body of two requests
Requests ==
    {[params |-> JsObject({<<"id", "42">>}),
      body |-> JsObject({<<"username", "a">>, <<"password", "b">>})],
     [params |-> JsObject({<<"id", "7">>}),
      body |-> JsObject({<<"username", "c">>, <<"id", "9">>})]}

\* the router runs the first layer registered for the verb and the path; the
\* handler sends the response and never calls next()
Matches(layer, httpMethod, path) ==
    layer.httpMethod = httpMethod /\ layer.fullPath = path
Dispatch(httpMethod, path) ==
    CHOOSE j \in 1..Len(app) :
        /\ Matches(app[j], httpMethod, path)
        /\ \A i \in 1..(j - 1) : ~Matches(app[i], httpMethod, path)

\* the two sources exchanged
DataToPassSwapped(paramMeta, req) ==
    IF paramMeta.type = BODY THEN req.params ELSE req.body

\* lib.ts 162-165
DataToPass(paramMeta, req) ==
    IF paramMeta.type = BODY THEN req.body ELSE req.params

\* lib.ts 169: if (paramMeta.key), true of a key that is a non-empty string
HasKey(paramMeta) == IsDefined(paramMeta.key) /\ Value(paramMeta.key) # ""

\* lib.ts 158-170: the argument for the parameter at index (0-based)
HandlerArg(paramsMeta, index, req) ==
    LET paramMeta == paramsMeta[index + 1] IN
    IF ~IsDefined(paramMeta) THEN JsUndefined
    ELSE IF HasKey(Value(paramMeta))
         THEN Property(DataToPass(Value(paramMeta), req), Value(Value(paramMeta).key))
         ELSE DataToPass(Value(paramMeta), req)

\* the arguments are bound from request data kept in one place for all
\* handlers: the data of a request still pending, when there is one
HandlerArgsShared(layer, req) ==
    LET pending == {t \in 1..MaxInFlight : IsDefined(inflight[t])}
        shared == IF pending = {} THEN req
                  ELSE Value(inflight[CHOOSE t \in pending : TRUE]).req
    IN [i \in 1..Len(layer.paramsMeta) |-> HandlerArg(layer.paramsMeta, i - 1, shared)]

\* lib.ts 151-171: one argument per declared parameter of the method
HandlerArgs(layer, req) ==
    [i \in 1..Len(layer.paramsMeta) |-> HandlerArg(layer.paramsMeta, i - 1, req)]

\* what controller[method](...params) resolves to: the application's business
\* logic, a function of the receiver, the method and the arguments
MethodResult(controller, method, args) ==
    [controller |-> controller, method |-> method, args |-> args]

\* lib.ts 150-172, up to the await: a request for the verb and path of layer
\* k arrives; the handler of the layer the router picks binds the arguments
\* and invokes controller[method](...params).  The
\* activation takes the first free slot: slots only name pending activations
HandleRequest(s, k, req) ==
    /\ pc = "serving"
    /\ ~IsDefined(inflight[s])
    /\ \A t \in 1..(s - 1) : IsDefined(inflight[t])
    /\ LET j == Dispatch(app[k].httpMethod, app[k].fullPath)
           args == HandlerArgs(app[j], req)
       IN /\ inflight' = [inflight EXCEPT ![s] =
                  Some([httpMethod |-> app[k].httpMethod, path |-> app[k].fullPath,
                        req |-> req, handler |-> j,
                        controller |-> app[j].controller.id,
                        method |-> app[j].method, args |-> args])]
          /\ event' = [type |-> "invoke", sent |-> Undefined]
    /\ UNCHANGED <<meta, pc, providerInstances, stack, pi, ci, mi, constructed,
                   controllerObjs, app, error>>

\* lib.ts 172: the awaited method fulfils; res.send(value)
MethodFulfils(s) ==
    /\ pc = "serving"
    /\ IsDefined(inflight[s])
    /\ LET r == Value(inflight[s]) IN
        event' = [type |-> "send",
                  sent |-> Some(MethodResult(r.controller, r.method, r.args))]
    /\ inflight' = [inflight EXCEPT ![s] = Undefined]
    /\ UNCHANGED <<meta, pc, providerInstances, stack, pi, ci, mi, constructed,
                   controllerObjs, app, error>>

\* the handler catches the failure and answers with a response of its own
MethodRejectsCaught(s) ==
    /\ pc = "serving"
    /\ IsDefined(inflight[s])
    /\ LET r == Value(inflight[s]) IN
        event' = [type |-> "send",
                  sent |-> Some(MethodResult(r.controller, "catch", <<>>))]
    /\ inflight' = [inflight EXCEPT ![s] = Undefined]
    /\ UNCHANGED <<meta, pc, providerInstances, stack, pi, ci, mi, constructed,
                   controllerObjs, app, error>>

\* lib.ts 172: the awaited method rejects; the handler's promise rejects and
\* nothing is sent
MethodRejects(s) ==
    /\ pc = "serving"
    /\ IsDefined(inflight[s])
    /\ event' = [type |-> "reject", sent |-> Undefined]
    /\ inflight' = [inflight EXCEPT ![s] = Undefined]
    /\ UNCHANGED <<meta, pc, providerInstances, stack, pi, ci, mi, constructed,
                   controllerObjs, app, error>>

Next ==
    \/ InstantiateProvider
    \/ ConstructProvider
    \/ BeginControllers
    \/ InstantiateController
    \/ RegisterRoute
    \/ NextController
    \/ ReturnApp
    \/ \E s \in 1..MaxInFlight : \E k \in 1..Len(app) : \E req \in Requests :
           HandleRequest(s, k, req)
    \/ \E s \in 1..MaxInFlight : MethodFulfils(s)
    \/ \E s \in 1..MaxInFlight : MethodRejects(s)

Spec == Init /\ [][Next]_vars

\* createApp is one synchronous call: once begun it runs to its return or throw
Assembly ==
    \/ InstantiateProvider
    \/ ConstructProvider
    \/ BeginControllers
    \/ InstantiateController
    \/ RegisterRoute
    \/ NextController
    \/ ReturnApp

LiveSpec == Spec /\ WF_vars(Assembly)

(***************************************************************************)
(* What the properties below speak of, read off the metadata alone.        *)
(***************************************************************************)
Range(seq) == {seq[i] : i \in 1..Len(seq)}

\* the declared constructor-parameter classes of a class, empty when unavailable
Declared(c) == IF meta.paramTypes[c] = Undefined THEN <<>> ELSE meta.paramTypes[c][1]

\* the classes reachable from the classes of S through constructor parameters
RECURSIVE Closure(_)
Closure(S) ==
    LET T == S \cup UNION {Range(Declared(c)) : c \in S}
    IN IF T = S THEN S ELSE Closure(T)

Listed == Range(meta.providers)
OnCycle(c) == c \in Closure(Range(Declared(c)))
ReachesCycle == \E c \in Closure(Listed) : OnCycle(c)

\* the route methods of a controller class, in the order of its own keys
RoutesOf(c) == SelectSeq(meta.keys[c], LAMBDA k : k.httpMethod # Undefined)

\* the (controller, method) pairs of the module, in controller-list order
RECURSIVE PairsFrom(_)
PairsFrom(i) ==
    IF i > Len(meta.controllers) THEN <<>>
    ELSE [m \in 1..Len(RoutesOf(meta.controllers[i])) |->
             [ctl |-> i, key |-> RoutesOf(meta.controllers[i])[m]]] \o PairsFrom(i + 1)
Pairs == PairsFrom(1)

AppReturned == pc = "serving"
ProvidersPhaseOver ==
    pc \in {"controllers", "routes", "serving"}
        \/ (pc = "failed" /\ Value(error).kind # "RangeError")

(***************************************************************************)
(* C1: within one createApp call, the constructor of every provider class  *)
(* runs at most once, every consumer (a provider or a controller) that     *)
(* depends on the class holds that one instance, and a cache entry is      *)
(* never replaced or removed once set.                                     *)
(***************************************************************************)
C1_OneInstance ==
    /\ \A i, j \in 1..Len(constructed) :
          constructed[i].cls = constructed[j].cls => i = j
    /\ \A c \in DOMAIN providerInstances :
          \E i \in 1..Len(constructed) :
              constructed[i].cls = c /\ constructed[i] = providerInstances[c]
    /\ \A o \in Range(constructed) \cup Range(controllerObjs) :
          /\ Len(o.args) = Len(Declared(o.cls))
          /\ \A k \in 1..Len(o.args) :
                /\ Declared(o.cls)[k] \in DOMAIN providerInstances
                /\ o.args[k] = providerInstances[Declared(o.cls)[k]].id

C1_EntryKept ==
    \A c \in DOMAIN providerInstances :
        c \in DOMAIN providerInstances' /\ providerInstances'[c] = providerInstances[c]

\* C1: one construction per provider class at most, its instance shared by
\* every consumer, and its cache entry kept as it was set
C1_Singleton == []C1_OneInstance /\ [][C1_EntryKept]_vars

\* a provider and a controller both hold the instance of a class that the
\* provider list and the graph name more than once
C1_Witness ==
    /\ AppReturned
    /\ \E x, p \in Range(constructed) : \E q \in Range(controllerObjs) :
          /\ x.id \in Range(p.args)
          /\ x.id \in Range(q.args)
          /\ x.cls \in Listed

(***************************************************************************)
(* C6: the providers of the list are resolved in list order, all of them   *)
(* before the first controller is instantiated, and every controller is    *)
(* instantiated and all its routes are registered before createApp         *)
(* returns the app.                                                        *)
(***************************************************************************)
C6_AssemblyOrder ==
    /\ \A j \in 1..Len(meta.providers) :
          j < pi => meta.providers[j] \in DOMAIN providerInstances
    /\ (controllerObjs # <<>> \/ app # <<>> \/ ProvidersPhaseOver) =>
          /\ pc # "providers"
          /\ \A c \in Listed : c \in DOMAIN providerInstances
    /\ AppReturned =>
          /\ Len(controllerObjs) = Len(meta.controllers)
          /\ \A i \in 1..Len(controllerObjs) :
                controllerObjs[i].cls = meta.controllers[i]
          /\ Len(app) = Len(Pairs)
          /\ \A k \in 1..Len(app) :
                /\ app[k].controller = controllerObjs[Pairs[k].ctl]
                /\ app[k].method = Pairs[k].key.name

C6_Witness ==
    /\ AppReturned
    /\ Cardinality(Listed) = 2
    /\ Len(controllerObjs) = 2
    /\ Len(app) >= 2

(***************************************************************************)
(* C7: every declared constructor-parameter class of a provider P is       *)
(* constructed and cached before P's constructor runs, P is constructed    *)
(* with those cached instances in declared order, P is cached once its     *)
(* resolution has returned, and after provider resolution the cache holds  *)
(* exactly the classes reachable from the provider list.                   *)
(***************************************************************************)
C7_DepthFirst ==
    /\ \A f \in Range(stack) :
          /\ f.deps = Declared(f.Cls)
          /\ f.Cls \notin DOMAIN providerInstances
          /\ Len(f.params) <= Len(f.deps)
          /\ \A k \in 1..Len(f.params) :
                /\ f.deps[k] \in DOMAIN providerInstances
                /\ f.params[k] = providerInstances[f.deps[k]]
    /\ \A i \in 1..Len(constructed) :
          LET o == constructed[i] IN
          /\ Len(o.args) = Len(Declared(o.cls))
          /\ \A k \in 1..Len(o.args) :
                \E j \in 1..(i - 1) :
                    /\ constructed[j].cls = Declared(o.cls)[k]
                    /\ constructed[j].id = o.args[k]
          /\ o.cls \in DOMAIN providerInstances
          /\ providerInstances[o.cls] = o
    /\ ProvidersPhaseOver => DOMAIN providerInstances = Closure(Listed)

\* a provider was constructed with two different dependencies
C7_Witness ==
    /\ ProvidersPhaseOver
    /\ \E o \in Range(constructed) : Len(o.args) = 2 /\ o.args[1] # o.args[2]
    /\ Cardinality(DOMAIN providerInstances) = 3

(***************************************************************************)
(* C8: provider resolution terminates when the provider graph is acyclic;  *)
(* when a listed provider is on or reaches a dependency cycle it never     *)
(* completes: no class on a cycle is ever cached, no controller is         *)
(* instantiated and no app is returned (the recursion ends in stack        *)
(* exhaustion).                                                            *)
(***************************************************************************)
GraphAcyclic == \A c \in ProviderClasses : ~OnCycle(c)

C8_NeverCompletes ==
    ReachesCycle =>
        /\ ~ProvidersPhaseOver
        /\ ~AppReturned
        /\ controllerObjs = <<>>
        /\ \A c \in ProviderClasses : OnCycle(c) => c \notin DOMAIN providerInstances
        /\ pc = "failed" => Value(error).kind = "RangeError"

\* C8: an acyclic graph is resolved to the end; a cycle reached from the
\* provider list is never resolved
C8_Termination ==
    /\ (GraphAcyclic /\ pc = "providers") ~> ProvidersPhaseOver
    /\ []C8_NeverCompletes

\* the recursion ran into the stack limit on a cycle after an acyclic part
\* of the graph had been resolved and cached
C8_Witness ==
    /\ pc = "failed"
    /\ Value(error).kind = "RangeError"
    /\ DOMAIN providerInstances # {}

(***************************************************************************)
(* C2 (as stated): when a constructor parameter of a listed controller is  *)
(* a class that was never added to the providers list, createApp fails     *)
(* with the error naming that class and returns no app, also when the      *)
(* class is only a constructor dependency of a listed provider.            *)
(***************************************************************************)
C2_Unlisted(i) ==
    {k \in 1..Len(Declared(meta.controllers[i])) :
        Declared(meta.controllers[i])[k] \notin Listed}

\* C2 (as stated): an unlisted parameter class of a controller means no app
\* is returned and the error names an unlisted class
C2_Original ==
    \A i \in 1..Len(meta.controllers) :
        C2_Unlisted(i) # {} =>
            /\ ~AppReturned
            /\ (pc = "failed" /\ Value(error).kind = "Error" /\ ci = i) =>
                  \E k \in C2_Unlisted(i) :
                      Value(error).cls = Declared(meta.controllers[i])[k]

(***************************************************************************)
(* C2 (amended): when a constructor parameter of a listed controller is a  *)
(* class that is neither in the providers list nor reachable from a listed *)
(* provider through constructor dependencies, createApp returns no app;    *)
(* the first such parameter, in controller and parameter order, makes it   *)
(* throw the error naming that class.  A class that is only a dependency   *)
(* of a listed provider is cached and injected without error.              *)
(***************************************************************************)
C2_Unprovided(i) ==
    {k \in 1..Len(Declared(meta.controllers[i])) :
        Declared(meta.controllers[i])[k] \notin Closure(Listed)}

C2_First(S) == CHOOSE k \in S : \A l \in S : k <= l

\* C2 (amended): a parameter class of a controller that provider resolution
\* did not cache means no app is returned; the first one reached is named
C2_MissingProvider ==
    /\ (\E i \in 1..Len(meta.controllers) : C2_Unprovided(i) # {}) => ~AppReturned
    /\ ProvidersPhaseOver =>
          \A i \in 1..Len(meta.controllers) : i < ci => C2_Unprovided(i) = {}
    /\ (pc = "failed" /\ Value(error).kind = "Error") =>
          /\ ProvidersPhaseOver
          /\ C2_Unprovided(ci) # {}
          /\ Value(error).cls = Declared(meta.controllers[ci])[C2_First(C2_Unprovided(ci))]
    /\ (pc = "failed" /\ ProvidersPhaseOver /\ C2_Unprovided(ci) # {}) =>
          Value(error).kind = "Error"

\* the second controller of the list lacks a provider after the first
\* controller was wired with a cached one
C2_Witness ==
    /\ pc = "failed"
    /\ Value(error).kind = "Error"
    /\ Len(controllerObjs) = 1
    /\ Len(controllerObjs[1].args) = 1

(***************************************************************************)
(* C3 (as stated): after createApp returned, a request whose verb and path *)
(* are those of a (controller, method) pair invokes exactly that method of *)
(* that controller instance, also when two pairs have the same verb and    *)
(* full path.                                                              *)
(***************************************************************************)
C3_MatchedBy(r) ==
    {k \in 1..Len(app) :
        app[k].httpMethod = r.httpMethod /\ app[k].fullPath = r.path}

C4_ExpectedPrefix(c) ==
    IF meta.prefix[c] = Undefined THEN EmptyString
    ELSE IF meta.prefix[c][1] = EmptyString THEN EmptyString
    ELSE IF meta.prefix[c][1][1] = Slash THEN meta.prefix[c][1]
    ELSE <<Slash>> \o meta.prefix[c][1]

\* C4 (as stated): every registered full path is the normalised prefix, or
\* the empty string for an empty or unsupplied prefix, followed by the path
C4_FullPath ==
    \A k \in 1..Len(app) :
        app[k].fullPath =
            C4_ExpectedPrefix(meta.controllers[Pairs[k].ctl]) \o Pairs[k].key.path[1]

(***************************************************************************)
(* C5: the argument list of a handler has one entry per declared parameter *)
(* in declaration order; at a position without descriptor it is undefined, *)
(* with a ROUTE_PARAM descriptor it comes from the request's route         *)
(* parameters and with a BODY descriptor from the parsed body: the one     *)
(* field named by the descriptor's key, or the whole object without key.   *)
(***************************************************************************)
C5_Source(d, req) ==
    CASE d.type = ROUTE_PARAM -> req.params
      [] d.type = BODY -> req.body

C5_Field(object, key) ==
    IF \E p \in object.props : p[1] = key
    THEN [type |-> "string",
          props |-> {<<"value", v>> : v \in {p[2] : p \in {q \in object.props : q[1] = key}}}]
    ELSE [type |-> "undefined", props |-> {}]

C5_Expected(pm, req) ==
    IF pm = Undefined THEN [type |-> "undefined", props |-> {}]
    ELSE IF pm[1].key = Undefined THEN C5_Source(pm[1], req)
    ELSE C5_Field(C5_Source(pm[1], req), pm[1].key[1])

\* C5: the arguments of an invoked method, position by position
C5_Binding ==
    \A s \in 1..MaxInFlight :
        inflight[s] # Undefined =>
            LET r == inflight[s][1]
                declared == Pairs[r.handler].key.paramsMeta
            IN /\ Len(r.args) = Len(declared)
               /\ \A i \in 1..Len(declared) :
                     r.args[i] = C5_Expected(declared[i], r.req)

\* a method with a keyed route parameter and an unkeyed body was invoked
C5_Witness ==
    \E s \in 1..MaxInFlight :
        /\ inflight[s] # Undefined
        /\ Pairs[inflight[s][1].handler].key.paramsMeta =
              <<Some(Param(Some("id"))), Some(Body(Undefined))>>
        /\ inflight[s][1].args[1] = JsString("42")
        /\ inflight[s][1].args[2] = inflight[s][1].req.body

(***************************************************************************)
(* C9 (as stated): a class whose constructor-parameter types are           *)
(* unavailable is constructed with no arguments instead of crashing, as a  *)
(* provider and as a controller.                                           *)
(***************************************************************************)
C9_NoCrash ==
    /\ \A o \in Range(constructed) \cup Range(controllerObjs) :
          meta.paramTypes[o.cls] = Undefined => o.args = <<>>
    /\ ~(pc = "failed" /\ error[1].kind = "TypeError")

(***************************************************************************)
(* C10: while requests are served, in any interleaving, the handlers leave *)
(* the provider cache, the controllers' wiring, the metadata and the route *)
(* table unchanged, and the arguments bound for a request are a function   *)
(* of that request's own route parameters and body.                        *)
(***************************************************************************)
C10_Unchanged ==
    AppReturned =>
        /\ providerInstances' = providerInstances
        /\ controllerObjs' = controllerObjs
        /\ meta' = meta
        /\ app' = app
        /\ AppReturned'

C10_OwnData ==
    \A s \in 1..MaxInFlight :
        inflight[s] # Undefined =>
            inflight[s][1].args =
                [i \in 1..Len(app[inflight[s][1].handler].paramsMeta) |->
                    C5_Expected(app[inflight[s][1].handler].paramsMeta[i],
                                inflight[s][1].req)]

\* C10: serving writes no shared state and binds each request's own data
C10_Serving == [][C10_Unchanged]_vars /\ []C10_OwnData

\* two requests with different data are pending in handlers that bind arguments
C10_Witness ==
    /\ \A s \in 1..MaxInFlight : inflight[s] # Undefined
    /\ inflight[1][1].req # inflight[2][1].req
    /\ inflight[1][1].args # <<>>
    /\ inflight[1][1].args # inflight[2][1].args
    /\ inflight[1][1].handler = inflight[2][1].handler

(***************************************************************************)
(* C11: a handled request is one activation of the handler.  The step that *)
(* begins it invokes the method of the handler's route on the handler's    *)
(* controller and writes nothing; while the method is pending the          *)
(* activation is not invoked again and nothing is written; the step that   *)
(* ends it either sends one response whose body is what the method         *)
(* returned for the bound arguments, or, when the method rejects, sends    *)
(* nothing and the activation ends rejected.  A response is written only   *)
(* by the step that ends one activation.                                   *)
(***************************************************************************)
C11_Invoked(s) == inflight[s] = Undefined /\ inflight'[s] # Undefined
C11_Settled(s) == inflight[s] # Undefined /\ inflight'[s] = Undefined

C11_Step ==
    /\ \A s \in 1..MaxInFlight :
          C11_Invoked(s) =>
              /\ event' = [type |-> "invoke", sent |-> Undefined]
              /\ inflight'[s][1].handler \in 1..Len(app)
              /\ inflight'[s][1].controller =
                     app[inflight'[s][1].handler].controller.id
              /\ inflight'[s][1].method = app[inflight'[s][1].handler].method
    /\ \A s \in 1..MaxInFlight :
          (inflight[s] # Undefined /\ inflight'[s] # Undefined) =>
              inflight'[s] = inflight[s]
    /\ \A s \in 1..MaxInFlight :
          C11_Settled(s) =>
              \/ event' = [type |-> "send",
                           sent |-> <<MethodResult(inflight[s][1].controller,
                                                   inflight[s][1].method,
                                                   inflight[s][1].args)>>]
              \/ event' = [type |-> "reject", sent |-> Undefined]
    /\ Cardinality({s \in 1..MaxInFlight : inflight'[s] # inflight[s]}) <= 1
    /\ event'.sent # Undefined =>
          Cardinality({s \in 1..MaxInFlight : C11_Settled(s)}) = 1

C11_EventShape ==
    /\ event.type \in {"none", "invoke", "send", "reject"}
    /\ event.sent # Undefined <=> event.type = "send"

\* C11: one invocation per handled request; one response, the returned value,
\* after the method fulfils; no response when it rejects
C11_Response == [][C11_Step]_vars /\ []C11_EventShape

\* a method invoked with bound arguments has fulfilled and its value was sent
\* while another request is still pending
C11_Witness ==
    /\ event.type = "send"
    /\ event.sent[1].args # <<>>
    /\ event.sent[1].args[1] # JsUndefined
    /\ inflight[1] # Undefined
====
